---------------------------- MODULE Spec2Model ----------------------------
(***************************************************************************)
(* Model of the numeric core of fft_package:                               *)
(*   core/windowing.py          hamming/hanning/blackman_window,           *)
(*                              apply_window                               *)
(*   core/stft.py               compute_stft, compute_spectrogram          *)
(*   core/signal_processing.py  perform_fft, perform_ifft                  *)
(*                                                                         *)
(* A caller sits at pc = "idle", makes one call, and looks at the outcome  *)
(* held in ret.  compute_stft is stepped statement by statement (validate, *)
(* count, alloc, axes, one step per frame, return); the other functions    *)
(* are straight-line code and complete in one step.  seen holds how the    *)
(* calls of compute_stft with an undersized signal that the caller made in *)
(* a row have ended; any other call starts the record afresh.              *)
(***************************************************************************)
EXTENDS Integers, Sequences, FiniteSets

VARIABLES op, pc, args, num_windows, stft_matrix, freqs, times, i, ret, seen

vars == <<op, pc, args, num_windows, stft_matrix, freqs, times, i, ret, seen>>

(***************************************************************************)
(* Bounds of the model.                                                    *)
(***************************************************************************)
\* longest signal handed to compute_stft
MaxLen == 5
\* largest sampling rate (Hz); the rates are 1..MaxRate
MaxRate == 2
\* largest sample value of a signal transformed by perform_fft
MaxAmp == 1
\* largest db_range handed to compute_spectrogram, in decades (10 dB)
MaxDecades == 2

\* window_size arguments tried: invalid ones (<= 0) and every window length
\* whose cosine arguments are multiples of pi (see Cos)
WindowSizes == -1 .. 3
\* hop_length arguments tried: invalid ones, and up to one more than the
\* largest window_size
HopLengths == -1 .. 4
\* sample values of the signals handed to compute_stft and apply_window
Samples == {0, 1}
WindowTypes == {"hamming", "hanning", "blackman"}
\* the window-type tags tried: the three names and an unrecognised one
Tags == WindowTypes \cup {"triangular"}
\* signal lengths handed to perform_fft: those whose roots of unity are
\* Gaussian integers, so that the transform is computed exactly
FftLens == {1, 2, 4}

(***************************************************************************)
(* binary64 arithmetic.  A finite value is sign * (hi * 2^28 + lo) * 2^-56 *)
(* with 0 <= lo < 2^28: every double of magnitude in [2^-4, 4) lies on     *)
(* this grid, and so does every sum or difference of two such doubles.     *)
(* Results are rounded to 53 significant bits, ties to even, as the        *)
(* hardware does.  0.0 and -0.0 are not told apart.                        *)
(***************************************************************************)
Limb == 2^28

NaN == [nan |-> TRUE, s |-> 1, hi |-> 0, lo |-> 0]

Num(s, hi, lo) ==
    [nan |-> FALSE, s |-> IF hi = 0 /\ lo = 0 THEN 1 ELSE s, hi |-> hi, lo |-> lo]

\* the spacing of the doubles around hi * 2^28 * 2^-56, in grid units
Ulp(hi) ==
    IF hi < 2^25 THEN 1
    ELSE IF hi < 2^26 THEN 2
    ELSE IF hi < 2^27 THEN 4
    ELSE IF hi < 2^28 THEN 8
    ELSE IF hi < 2^29 THEN 16
    ELSE 32

\* round (hi * 2^28 + lo + r/d) grid units to the nearest double, ties to even
Round(s, hi, lo, r, d) ==
    LET u    == Ulp(hi)
        low  == lo % u
        twice == 2 * (low * d + r)
        up   == \/ twice > u * d
                \/ twice = u * d /\ ((lo \div u) % 2 = 1)
        lo2  == lo - low + (IF up THEN u ELSE 0)
    IN  IF lo2 >= Limb THEN Num(s, hi + 1, lo2 - Limb) ELSE Num(s, hi, lo2)

\* the double nearest to n/d, for 0 < n < d < 2^16: a decimal literal
FromRatio(n, d) ==
    LET c1 == n * 2^14
        c2 == (c1 % d) * 2^14
        c3 == (c2 % d) * 2^14
        c4 == (c3 % d) * 2^14
    IN  Round(1, (c1 \div d) * 2^14 + (c2 \div d),
                 (c3 \div d) * 2^14 + (c4 \div d), c4 % d, d)

\* the double of a small integer
FromInt(k) == Num(IF k < 0 THEN -1 ELSE 1, (IF k < 0 THEN -k ELSE k) * Limb, 0)

MagLess(a, b) == a.hi < b.hi \/ (a.hi = b.hi /\ a.lo < b.lo)

FNeg(a) == IF a.nan THEN NaN ELSE Num(-a.s, a.hi, a.lo)

FAdd(a, b) ==
    IF a.nan \/ b.nan THEN NaN
    ELSE IF a.s = b.s
    THEN LET lo == a.lo + b.lo
         IN  IF lo >= Limb THEN Round(a.s, a.hi + b.hi + 1, lo - Limb, 0, 1)
             ELSE Round(a.s, a.hi + b.hi, lo, 0, 1)
    ELSE LET big   == IF MagLess(a, b) THEN b ELSE a
             small == IF MagLess(a, b) THEN a ELSE b
             lo    == big.lo - small.lo
         IN  IF lo < 0 THEN Round(big.s, big.hi - small.hi - 1, lo + Limb, 0, 1)
             ELSE Round(big.s, big.hi - small.hi, lo, 0, 1)

FSub(a, b) == FAdd(a, FNeg(b))

IsSmallInt(a) == ~a.nan /\ a.lo = 0 /\ a.hi % Limb = 0 /\ a.hi \div Limb <= 4

IsHalf(a) == ~a.nan /\ a.s = 1 /\ a.lo = 0 /\ a.hi = 2^27

\* a * k for an integer 0 <= k <= 4, rounded
Scale(a, s, k) ==
    LET lo == a.lo * k
    IN  Round(a.s * s, a.hi * k + (lo \div Limb), lo % Limb, 0, 1)

\* a / 2, exact
Halve(a) == Num(a.s, a.hi \div 2, (a.hi % 2) * 2^27 + (a.lo \div 2))

\* The product of two doubles, one of which is a small integer or 0.5: the
\* only products the windows and the frames of this model need.
FMul(a, b) ==
    CASE a.nan \/ b.nan -> NaN
      [] IsSmallInt(b) -> Scale(a, b.s, b.hi \div Limb)
      [] IsSmallInt(a) -> Scale(b, a.s, a.hi \div Limb)
      [] IsHalf(a) /\ b.lo % 2 = 0 -> Halve(b)
      [] IsHalf(b) /\ a.lo % 2 = 0 -> Halve(a)

\* a <= b and a >= b on doubles; both are false when either is NaN
FLe(a, b) ==
    /\ ~a.nan /\ ~b.nan
    /\ \/ a = b
       \/ a.s = -1 /\ b.s = 1
       \/ a.s = 1 /\ b.s = 1 /\ MagLess(a, b)
       \/ a.s = -1 /\ b.s = -1 /\ MagLess(b, a)

FGe(a, b) == FLe(b, a)

(***************************************************************************)
(* core/windowing.py                                                       *)
(***************************************************************************)
\* np.cos(k * np.pi * n / d) for k = 2 or 4: d = 0 (with n = 0) divides
\* 0.0 by 0 and yields NaN; at the double nearest to a multiple of pi the
\* cosine is exactly 1.0 or -1.0.  Other arguments (window lengths above
\* 3) are outside the model.
Cos(k, n, d) ==
    CASE d = 0 -> NaN
      [] d /= 0 /\ (k * n) % (2 * d) = 0 -> FromInt(1)
      [] d /= 0 /\ (k * n) % (2 * d) /= 0 /\ (k * n) % d = 0 -> FromInt(-1)

\* np.arange(N): empty when N <= 0
Arange(N) == [j \in 1 .. N |-> j - 1]

hamming_window(N) ==
    LET n == Arange(N)
    IN  [j \in 1 .. N |->
            FSub(FromRatio(54, 100), FMul(FromRatio(46, 100), Cos(2, n[j], N - 1)))]

hanning_window(N) ==
    LET n == Arange(N)
    IN  [j \in 1 .. N |->
            FMul(FromRatio(5, 10), FSub(FromInt(1), Cos(2, n[j], N - 1)))]

blackman_window(N) ==
    LET n == Arange(N)
    IN  [j \in 1 .. N |->
            FAdd(FSub(FromRatio(42, 100), FMul(FromRatio(5, 10), Cos(2, n[j], N - 1))),
                 FMul(FromRatio(8, 100), Cos(4, n[j], N - 1)))]

\* The outcome of a call: a returned value, or a ValueError with its message
\* and the line that raises it (for compute_stft, the line of stft.py the
\* exception leaves the function from).
Ok(v) == [kind |-> "ok", val |-> v, msg |-> "", line |-> 0]

Raise(m, line) == [kind |-> "error", val |-> <<>>, msg |-> m, line |-> line]

None == [kind |-> "none", val |-> <<>>, msg |-> "", line |-> 0]

\* apply_window(signal, window_type): the samples are doubles
apply_window(signal, window_type) ==
    LET N == Len(signal)
    IN  IF window_type \notin WindowTypes
        THEN Raise("Unsupported window type", 77)
        ELSE LET window == CASE window_type = "hamming" -> hamming_window(N)
                             [] window_type = "hanning" -> hanning_window(N)
                             [] window_type = "blackman" -> blackman_window(N)
             IN  Ok([j \in 1 .. N |-> FMul(FromInt(signal[j]), window[j])])

(***************************************************************************)
(* core/stft.py: compute_stft                                              *)
(***************************************************************************)
\* A complex number the external real transform returns: coefficient k of
\* np.fft.rfft(x).  The transform is an external primitive; the model keeps
\* which coefficient of which windowed frame a matrix entry is.
Bin(k, x) == [k |-> k, x |-> x]

\* the complex zero np.zeros fills the matrix with
ComplexZero == Bin(0, <<>>)

\* np.fft.rfft(x): len(x) // 2 + 1 coefficients
Rfft(x) == [b \in 1 .. (Len(x) \div 2 + 1) |-> Bin(b - 1, x)]

\* np.zeros((rows, cols), dtype=complex), rows >= 0
Zeros(rows, cols) ==
    [shape |-> <<rows, cols>>,
     data |-> [r \in 1 .. rows |-> [c \in 1 .. cols |-> ComplexZero]]]

\* the name stft_matrix before line 53 binds it
Unbound == [shape |-> <<-1, -1>>, data |-> <<>>]

\* np.fft.rfftfreq(window_size, d=1/sampling_rate): bin k is at
\* k * sampling_rate / window_size, held as <<numerator, denominator>>
RfftFreq(window_size, sampling_rate) ==
    [b \in 1 .. (window_size \div 2 + 1) |-> <<(b - 1) * sampling_rate, window_size>>]

\* np.arange(num_windows) * hop_length / sampling_rate
TimePoints(n, hop_length, sampling_rate) ==
    [r \in 1 .. n |-> <<Arange(n)[r] * hop_length, sampling_rate>>]

\* signal[start:end], clipped to the signal as a Python slice is
Slice(signal, start, end) ==
    SubSeq(signal, start + 1, IF end < Len(signal) THEN end ELSE Len(signal))

\* Validate without the third check (hop_length > window_size)
Validate_NoHopBound(window_size, hop_length) ==
    IF window_size <= 0 THEN Raise("window_size must be positive", 42)
    ELSE IF hop_length <= 0 THEN Raise("hop_length must be positive", 44)
    ELSE None

\* lines 41-46
Validate(window_size, hop_length) ==
    IF window_size <= 0 THEN Raise("window_size must be positive", 42)
    ELSE IF hop_length <= 0 THEN Raise("hop_length must be positive", 44)
    ELSE IF hop_length > window_size
    THEN Raise("hop_length must be less than or equal to window_size", 46)
    ELSE None

\* NumWindows without the frame that starts at sample 0
NumWindows_NoFirstFrame(num_samples, window_size, hop_length) ==
    (num_samples - window_size) \div hop_length

\* NumWindows rounding the frame count up instead of down
NumWindows_RoundUp(num_samples, window_size, hop_length) ==
    1 + (num_samples - window_size + hop_length - 1) \div hop_length

\* line 50
NumWindows(num_samples, window_size, hop_length) ==
    1 + (num_samples - window_size) \div hop_length

\* FrameSpan with frames laid end to end, window_size apart
FrameSpan_WindowStride(window_size, hop_length, k) ==
    <<k * window_size, k * window_size + window_size>>

\* lines 64-65: <<start, end>> of frame k
FrameSpan(window_size, hop_length, k) ==
    <<k * hop_length, k * hop_length + window_size>>

\* line 72: stft_matrix[k] = row
WriteRow(m, k, row) == [m EXCEPT !.data[k + 1] = row]

\* lines 64-72 for frame i: the row of the matrix, or apply_window's error
FrameRow(signal, window_size, hop_length, window_type, k) ==
    LET start == FrameSpan(window_size, hop_length, k)[1]
        end == FrameSpan(window_size, hop_length, k)[2]
        window == Slice(signal, start, end)
        windowed == apply_window(window, window_type)
    IN  IF windowed.kind = "error" THEN windowed ELSE Ok(Rfft(windowed.val))

(***************************************************************************)
(* core/stft.py: compute_spectrogram                                       *)
(*                                                                         *)
(* A matrix entry is a Gaussian integer <<re, im>>.  A decibel value is    *)
(* held as the power it is the logarithm of: Db(m, k, e) stands for        *)
(* 10 * log10(m * 10^-k * eps^e), with eps = 2^-52 (np.finfo(float).eps),  *)
(* and db_range is a whole number of decades (10 dB each), so that         *)
(* subtracting it is exact.                                                *)
(***************************************************************************)
Db(m, k, e) == [m |-> m, k |-> k, e |-> e]

\* a <= b; every m * 10^k of the model is below 2^52 = 1/eps
DbLe(a, b) ==
    IF a.e /= b.e THEN a.e > b.e
    ELSE a.m * 10^(b.k) <= b.m * 10^(a.k)

DbEq(a, b) == DbLe(a, b) /\ DbLe(b, a)

DbMaximum(a, b) == IF DbLe(a, b) THEN b ELSE a

\* a - 10 * decades
DbMinus(a, decades) == [a EXCEPT !.k = a.k + decades]

\* line 94: np.abs(z) ** 2
Power(z) == z[1] * z[1] + z[2] * z[2]

\* line 102: 10 * np.log10(np.maximum(power, eps))
PowerDb(p) == IF p = 0 THEN Db(1, 0, 1) ELSE Db(p, 0, 0)

RECURSIVE SeqMax(_)
\* the maximum of a non-empty sequence of decibel values
SeqMax(q) ==
    IF Len(q) = 1 THEN q[1] ELSE DbMaximum(q[1], SeqMax(Tail(q)))

RECURSIVE Flatten(_)
Flatten(rows) ==
    IF rows = <<>> THEN <<>> ELSE Head(rows) \o Flatten(Tail(rows))

\* lines 93-107; db_range = 10 * decades
compute_spectrogram(stft_matrix_, decades) ==
    IF stft_matrix_.shape[1] * stft_matrix_.shape[2] = 0
    THEN \* power.max() of an array without elements (line 97)
         Raise("zero-size array to reduction operation maximum which has no identity", 97)
    ELSE LET power_db == [r \in 1 .. stft_matrix_.shape[1] |->
                            [c \in 1 .. stft_matrix_.shape[2] |->
                                PowerDb(Power(stft_matrix_.data[r][c]))]]
             floor == DbMinus(SeqMax(Flatten(power_db)), decades)
             power_db_norm == [r \in 1 .. stft_matrix_.shape[1] |->
                                 [c \in 1 .. stft_matrix_.shape[2] |->
                                     DbMaximum(power_db[r][c], floor)]]
         IN  Ok([shape |-> stft_matrix_.shape, data |-> power_db_norm])

(***************************************************************************)
(* core/signal_processing.py: perform_fft, perform_ifft                    *)
(*                                                                         *)
(* The external transform is computed exactly for the lengths n that       *)
(* divide 4: the n-th roots of unity are then powers of the imaginary      *)
(* unit, and a spectrum of integer samples is a sequence of Gaussian       *)
(* integers <<re, im>>.                                                    *)
(***************************************************************************)
\* z * i^p
TimesIPow(z, p) ==
    CASE p % 4 = 0 -> z
      [] p % 4 = 1 -> <<-z[2], z[1]>>
      [] p % 4 = 2 -> <<-z[1], -z[2]>>
      [] p % 4 = 3 -> <<z[2], -z[1]>>

CAdd(a, b) == <<a[1] + b[1], a[2] + b[2]>>

RECURSIVE CSum(_)
CSum(q) == IF q = <<>> THEN <<0, 0>> ELSE CAdd(Head(q), CSum(Tail(q)))

\* sum over j of x[j] * exp(sign * 2 pi i * j * k / n), n = len(x) dividing 4
Dft(x, sign) ==
    LET n == Len(x)
    IN  [k \in 1 .. n |->
            CSum([j \in 1 .. n |->
                    TimesIPow(x[j], (sign * (4 \div n) * (j - 1) * (k - 1)) % 4)])]

\* np.fft.fft of a real signal
Fft(signal) == Dft([j \in 1 .. Len(signal) |-> <<signal[j], 0>>], -1)

\* np.fft.ifft: the inverse sum divided by n; a value is <<re, im, n>>,
\* standing for (re + im i) / n
Ifft(spectrum) ==
    LET n == Len(spectrum)
        sums == Dft(spectrum, 1)
    IN  [k \in 1 .. n |-> <<sums[k][1], sums[k][2], n>>]

\* perform_fft returning the transform cut to the first n // 2 bins, as the
\* magnitudes are
perform_fft_Truncated(signal, sampling_rate) ==
    LET n == Len(signal)
        fft_result == SubSeq(Fft(signal), 1, n \div 2)
        magnitude == [k \in 1 .. n \div 2 |-> <<Power(fft_result[k]), n>>]
        freq == [k \in 1 .. n |-> <<Arange(n)[k] * sampling_rate, n>>]
    IN  <<SubSeq(freq, 1, n \div 2), magnitude, fft_result>>

\* lines 42-52.  A magnitude sqrt(sq) / n is held as <<sq, n>>, a frequency
\* k * sampling_rate / n as <<k * sampling_rate, n>>.
perform_fft(signal, sampling_rate) ==
    LET n == Len(signal)
        fft_result == Fft(signal)
        magnitude == [k \in 1 .. n |-> <<Power(fft_result[k]), n>>]
        freq == [k \in 1 .. n |-> <<Arange(n)[k] * sampling_rate, n>>]
    IN  <<SubSeq(freq, 1, n \div 2), SubSeq(magnitude, 1, n \div 2), fft_result>>

\* line 64: the real parts, each <<numerator, denominator>>
perform_ifft(fft_result) ==
    LET z == Ifft(fft_result)
    IN  [k \in 1 .. Len(z) |-> <<z[k][1], z[k][3]>>]

(***************************************************************************)
(* The caller                                                              *)
(***************************************************************************)
NoArgs == [none |-> TRUE]

Signals == UNION {[1 .. n -> Samples] : n \in 0 .. MaxLen}

Frames == UNION {[1 .. n -> Samples] : n \in 0 .. 3}

FftSignals == UNION {[1 .. n -> (-MaxAmp) .. MaxAmp] : n \in FftLens}

\* matrix entries tried: powers 0, 1, 13 and 200
Entries == {<<0, 0>>, <<1, 0>>, <<2, 3>>, <<10, 10>>}

Matrices ==
    UNION {{[shape |-> <<r, c>>, data |-> d] : d \in [1 .. r -> [1 .. c -> Entries]]} :
              r \in 0 .. 2, c \in 1 .. 2}

Init ==
    /\ op = "none"
    /\ pc = "idle"
    /\ args = NoArgs
    /\ num_windows = 0
    /\ stft_matrix = Unbound
    /\ freqs = <<>>
    /\ times = <<>>
    /\ i = 0
    /\ ret = None
    /\ seen = {}

StftIdle ==
    /\ num_windows' = 0
    /\ stft_matrix' = Unbound
    /\ freqs' = <<>>
    /\ times' = <<>>
    /\ i' = 0

\* a call of hamming_window, hanning_window or blackman_window
CallWindow ==
    /\ pc = "idle"
    /\ \E w \in WindowTypes, N \in WindowSizes :
          /\ op' = w
          /\ args' = [N |-> N]
          /\ ret' = Ok(CASE w = "hamming" -> hamming_window(N)
                         [] w = "hanning" -> hanning_window(N)
                         [] w = "blackman" -> blackman_window(N))
    /\ pc' = "done"
    /\ StftIdle
    /\ seen' = {}

CallApplyWindow ==
    /\ pc = "idle"
    /\ \E signal \in Frames, window_type \in Tags :
          /\ args' = [signal |-> signal, window_type |-> window_type]
          /\ ret' = apply_window(signal, window_type)
    /\ op' = "apply_window"
    /\ pc' = "done"
    /\ StftIdle
    /\ seen' = {}

CallSpectrogram ==
    /\ pc = "idle"
    /\ \E m \in Matrices, decades \in 1 .. MaxDecades :
          /\ args' = [stft_matrix |-> m, decades |-> decades]
          /\ ret' = compute_spectrogram(m, decades)
    /\ op' = "compute_spectrogram"
    /\ pc' = "done"
    /\ StftIdle
    /\ seen' = {}

CallFft ==
    /\ pc = "idle"
    /\ \E signal \in FftSignals, sampling_rate \in 1 .. MaxRate :
          /\ args' = [signal |-> signal, sampling_rate |-> sampling_rate]
          /\ ret' = Ok(perform_fft(signal, sampling_rate))
    /\ op' = "perform_fft"
    /\ pc' = "done"
    /\ StftIdle
    /\ seen' = {}

\* the caller hands the third value perform_fft returned to perform_ifft
CallIfft ==
    /\ pc = "done"
    /\ op = "perform_fft"
    /\ ret' = Ok(perform_ifft(ret.val[3]))
    /\ op' = "perform_ifft"
    /\ UNCHANGED <<pc, args, num_windows, stft_matrix, freqs, times, i, seen>>

(***************************************************************************)
(* compute_stft, statement by statement                                    *)
(***************************************************************************)
CallStft ==
    /\ pc = "idle"
    /\ \E signal \in Signals, sampling_rate \in 1 .. MaxRate,
          window_size \in WindowSizes, hop_length \in HopLengths, window_type \in Tags :
          /\ args' = [signal |-> signal, sampling_rate |-> sampling_rate,
                      window_size |-> window_size, hop_length |-> hop_length,
                      window_type |-> window_type]
          /\ seen' = IF /\ 0 < hop_length /\ hop_length <= window_size
                         /\ Len(signal) < window_size
                      THEN seen ELSE {}
    /\ op' = "compute_stft"
    /\ pc' = "validate"
    /\ UNCHANGED <<num_windows, stft_matrix, freqs, times, i, ret>>

\* the call is one with valid sizes and a signal shorter than the window
Undersized ==
    /\ op = "compute_stft"
    /\ 0 < args.hop_length /\ args.hop_length <= args.window_size
    /\ Len(args.signal) < args.window_size

\* what the caller sees of a finished call
Policy(r) ==
    IF r.kind = "error" THEN "rejected"
    ELSE IF r.val[3].shape[1] = 0 THEN "empty" ELSE "matrix"

\* compute_stft ends with outcome r; the caller notes the outcome of a call
\* with an undersized signal
Finish(r) ==
    /\ pc' = "done"
    /\ ret' = r
    /\ seen' = IF Undersized THEN seen \cup {Policy(r)} ELSE seen

\* lines 41-46
StftValidate ==
    /\ pc = "validate"
    /\ LET v == Validate(args.window_size, args.hop_length)
       IN  IF v.kind = "error"
           THEN Finish(v)
           ELSE pc' = "count" /\ UNCHANGED <<ret, seen>>
    /\ UNCHANGED <<op, args, num_windows, stft_matrix, freqs, times, i>>

\* lines 49-50
StftCount ==
    /\ pc = "count"
    /\ num_windows' = NumWindows(Len(args.signal), args.window_size, args.hop_length)
    /\ pc' = "alloc"
    /\ UNCHANGED <<op, args, stft_matrix, freqs, times, i, ret, seen>>

\* line 53: np.zeros refuses a negative dimension
StftAlloc ==
    /\ pc = "alloc"
    /\ IF num_windows < 0
       THEN /\ Finish(Raise("negative dimensions are not allowed", 53))
            /\ UNCHANGED stft_matrix
       ELSE /\ stft_matrix' = Zeros(num_windows, args.window_size \div 2 + 1)
            /\ pc' = "axes"
            /\ UNCHANGED <<ret, seen>>
    /\ UNCHANGED <<op, args, num_windows, freqs, times, i>>

\* lines 56-59
StftAxes ==
    /\ pc = "axes"
    /\ freqs' = RfftFreq(args.window_size, args.sampling_rate)
    /\ times' = TimePoints(num_windows, args.hop_length, args.sampling_rate)
    /\ i' = 0
    /\ pc' = "loop"
    /\ UNCHANGED <<op, args, num_windows, stft_matrix, ret, seen>>

\* lines 62-72: one pass of the loop body
StftFrame ==
    /\ pc = "loop"
    /\ i < num_windows
    /\ LET row == FrameRow(args.signal, args.window_size, args.hop_length,
                           args.window_type, i)
       IN  IF row.kind = "error"
           THEN /\ Finish(Raise(row.msg, 69))
                /\ UNCHANGED <<stft_matrix, i>>
           ELSE /\ stft_matrix' = WriteRow(stft_matrix, i, row.val)
                /\ i' = i + 1
                /\ UNCHANGED <<pc, ret, seen>>
    /\ UNCHANGED <<op, args, num_windows, freqs, times>>

\* line 74
StftReturn ==
    /\ pc = "loop"
    /\ i >= num_windows
    /\ Finish(Ok(<<times, freqs, stft_matrix>>))
    /\ UNCHANGED <<op, args, num_windows, stft_matrix, freqs, times, i>>

\* the caller takes the outcome and is ready for the next call
Return ==
    /\ pc = "done"
    /\ op' = "none"
    /\ pc' = "idle"
    /\ args' = NoArgs
    /\ ret' = None
    /\ StftIdle
    /\ UNCHANGED seen

Next ==
    \/ CallWindow
    \/ CallApplyWindow
    \/ CallSpectrogram
    \/ CallFft
    \/ CallIfft
    \/ CallStft
    \/ StftValidate
    \/ StftCount
    \/ StftAlloc
    \/ StftAxes
    \/ StftFrame
    \/ StftReturn
    \/ Return

Spec == Init /\ [][Next]_vars

(***************************************************************************)
(* Properties                                                              *)
(***************************************************************************)
StftDone == op = "compute_stft" /\ pc = "done"

ValidSizes ==
    /\ args.window_size > 0
    /\ args.hop_length > 0
    /\ args.hop_length <= args.window_size

SizeMessages ==
    {"window_size must be positive", "hop_length must be positive",
     "hop_length must be less than or equal to window_size"}

\* C1: whenever window_size <= 0, hop_length <= 0 or hop_length >
\* window_size, compute_stft never gets past its checks, and it ends with a
\* ValueError about the sizes and no result.
C1_InvalidSizesRejected ==
    op = "compute_stft" /\ ~ValidSizes =>
        /\ pc \in {"validate", "done"}
        /\ pc = "done" =>
              /\ ret.kind = "error"
              /\ ret.msg \in SizeMessages
              /\ ret.val = <<>>

\* a call with hop_length > window_size > 0 has been rejected
C1_Witness ==
    /\ StftDone
    /\ args.window_size > 0
    /\ args.hop_length > args.window_size
    /\ Len(args.signal) >= args.window_size
    /\ ret.kind = "error"

\* C2: with 0 < hop_length <= window_size <= len(signal) (and a recognised
\* window type) compute_stft returns a matrix of shape
\* (1 + (L - window_size) // hop_length, window_size // 2 + 1), one time per
\* row with times[i] = i * hop_length / sampling_rate, and one frequency per
\* column.
C2_StftShape ==
    StftDone /\ ValidSizes /\ Len(args.signal) >= args.window_size
             /\ args.window_type \in WindowTypes =>
        /\ ret.kind = "ok"
        /\ LET rows == 1 + (Len(args.signal) - args.window_size) \div args.hop_length
               cols == args.window_size \div 2 + 1
               t == ret.val[1]
               f == ret.val[2]
               m == ret.val[3]
           IN  /\ m.shape = <<rows, cols>>
               /\ Len(m.data) = rows
               /\ \A r \in 1 .. Len(m.data) : Len(m.data[r]) = cols
               /\ Len(t) = rows
               /\ \A r \in 1 .. Len(t) :
                     t[r][1] * args.sampling_rate = (r - 1) * args.hop_length * t[r][2]
               /\ Len(f) = cols

\* a call with overlapping frames has returned a matrix of several rows
C2_Witness ==
    /\ StftDone
    /\ ret.kind = "ok"
    /\ args.hop_length < args.window_size
    /\ args.window_size < Len(args.signal)
    /\ args.sampling_rate > 1
    /\ ret.val[3].shape[1] >= 2
    /\ ret.val[3].shape[2] = 2

SpectrogramDone == op = "compute_spectrogram" /\ pc = "done"

\* C3: for any input matrix, one with zero rows included, and any
\* db_range > 0, compute_spectrogram returns a matrix whose largest and
\* smallest values differ by at most db_range.
C3_DynamicRange ==
    SpectrogramDone =>
        /\ ret.kind = "ok"
        /\ LET out == Flatten(ret.val.data)
           IN  \A a, b \in 1 .. Len(out) :
                  DbLe(DbMinus(out[a], args.decades), out[b])

\* The part of C3 the code keeps: the range of every matrix that has
\* elements.
SpectrogramRangeNonEmpty ==
    SpectrogramDone /\ args.stft_matrix.shape[1] > 0 =>
        /\ ret.kind = "ok"
        /\ LET out == Flatten(ret.val.data)
           IN  \A a, b \in 1 .. Len(out) :
                  DbLe(DbMinus(out[a], args.decades), out[b])

\* C4: the largest value of the spectrogram of a non-empty matrix is 0 dB.
C4_PeakIsZeroDb ==
    SpectrogramDone /\ args.stft_matrix.shape[1] > 0 =>
        /\ ret.kind = "ok"
        /\ DbEq(SeqMax(Flatten(ret.val.data)), Db(1, 0, 0))

\* C5: an unrecognised window-type tag ends apply_window, and compute_stft
\* with otherwise valid sizes, in an error; neither returns a result.
C5_UnknownTagRejected ==
    /\ op = "apply_window" /\ pc = "done" /\ args.window_type \notin WindowTypes =>
          ret.kind = "error" /\ ret.val = <<>>
    /\ StftDone /\ ValidSizes /\ args.window_type \notin WindowTypes =>
          ret.kind = "error" /\ ret.val = <<>>

\* C6: perform_fft returns the whole transform, one bin per sample, and
\* perform_ifft of it is the signal again, sample by sample, the inverse
\* having no imaginary part to lose.
C6_RoundTrip ==
    /\ op = "perform_fft" /\ pc = "done" => Len(ret.val[3]) = Len(args.signal)
    /\ op = "perform_ifft" /\ pc = "done" =>
          /\ Len(ret.val) = Len(args.signal)
          /\ \A k \in 1 .. Len(args.signal) :
                /\ ret.val[k][2] > 0
                /\ ret.val[k][1] = args.signal[k] * ret.val[k][2]
                /\ Ifft(Fft(args.signal))[k][2] = 0

\* a signal of four samples, not all equal, has gone through both transforms
C6_Witness ==
    /\ op = "perform_ifft"
    /\ pc = "done"
    /\ args.signal = <<1, 0, -1, 1>>
    /\ ret.val = <<<<4, 4>>, <<0, 4>>, <<-4, 4>>, <<4, 4>>>>

\* C7: a window of length 1 ends in an error: the three window functions
\* with N = 1, apply_window on a frame of one sample, and compute_stft with
\* window_size = 1.
C7_LengthOneRejected ==
    /\ op \in WindowTypes /\ pc = "done" /\ args.N = 1 => ret.kind = "error"
    /\ op = "apply_window" /\ pc = "done" /\ Len(args.signal) = 1 =>
          ret.kind = "error"
    /\ StftDone /\ args.window_size = 1 => ret.kind = "error"

\* C8: every rejection of compute_stft for its sizes or its window type
\* happens in the checks at the start (lines 41-46), before the frame count
\* is computed, the matrix is allocated and any frame is processed, and the
\* failing call leaves no result.
C8_EagerValidation ==
    StftDone /\ ret.kind = "error"
             /\ ret.msg \in SizeMessages \cup {"Unsupported window type"} =>
        /\ ret.line <= 46
        /\ stft_matrix = Unbound
        /\ i = 0
        /\ ret.val = <<>>

\* C9: for N >= 2 every weight of the Hamming and of the Blackman window is
\* at least 0 and at most 1.
C9_WeightsInUnitInterval ==
    op \in {"hamming", "blackman"} /\ pc = "done" /\ args.N >= 2 =>
        /\ ret.kind = "ok"
        /\ \A j \in 1 .. Len(ret.val) :
              FGe(ret.val[j], FromInt(0)) /\ FLe(ret.val[j], FromInt(1))

\* C10: the calls with valid sizes and len(signal) < window_size all end
\* the same way, all rejected or all with a matrix of zero rows, and none
\* returns a matrix of another shape.
C10_OnePolicy ==
    /\ Cardinality(seen) <= 1
    /\ seen \subseteq {"rejected", "empty"}
    /\ StftDone /\ Undersized /\ ret.kind = "ok" =>
          /\ ret.val[3].shape = <<0, args.window_size \div 2 + 1>>
          /\ ret.val[3].data = <<>>

\* the call has valid sizes and a signal of at least one window, and is in
\* or past its frame loop
FramesStarted ==
    /\ op = "compute_stft"
    /\ pc \in {"loop", "done"}
    /\ ValidSizes
    /\ Len(args.signal) >= args.window_size
    /\ stft_matrix /= Unbound

\* the samples [k * hop_length, k * hop_length + window_size) of the signal
FrameSamples(k) ==
    [j \in 1 .. args.window_size |-> args.signal[k * args.hop_length + j]]

RECURSIVE Orders(_)
\* every order in which the frames of the set S can be processed
Orders(S) ==
    IF S = {} THEN {<<>>}
    ELSE UNION {{<<k>> \o o : o \in Orders(S \ {k})} : k \in S}

\* the orders of the frames 0 .. n - 1, for every frame count of the model
FrameOrders == [n \in 0 .. MaxLen |-> Orders(0 .. n - 1)]

RECURSIVE WriteAll(_, _, _)
\* the matrix m after the loop body has run for the frames of order, in
\* turn; rows[k + 1] is the row the loop body computes for frame k
WriteAll(m, rows, order) ==
    IF order = <<>> THEN m
    ELSE WriteAll(WriteRow(m, Head(order), rows[Head(order) + 1]), rows, Tail(order))

RECURSIVE FrameRows(_)
\* the rows the loop body computes for the frames 0 .. n - 1
FrameRows(n) ==
    IF n = 0 THEN <<>>
    ELSE Append(FrameRows(n - 1),
                FrameRow(args.signal, args.window_size, args.hop_length,
                         args.window_type, n - 1).val)

\* C11: with valid sizes and len(signal) >= window_size every frame's slice
\* [i * hop_length, i * hop_length + window_size) lies inside the signal and
\* has window_size samples; the row of a processed frame is the transform of
\* exactly those samples under the window type (equal samples give equal
\* rows), the rows of the frames not yet processed are untouched, and the
\* returned matrix is the one any order of the frames produces.
C11_FramesIndependent ==
    FramesStarted =>
        /\ num_windows >= 1
        /\ \A k \in 0 .. num_windows - 1 :
              /\ k * args.hop_length >= 0
              /\ k * args.hop_length + args.window_size <= Len(args.signal)
        /\ \A k \in 0 .. i - 1 :
              /\ \A b \in 1 .. Len(stft_matrix.data[k + 1]) :
                    Len(stft_matrix.data[k + 1][b].x) = args.window_size
              /\ stft_matrix.data[k + 1]
                    = Rfft(apply_window(FrameSamples(k), args.window_type).val)
              /\ \A k2 \in 0 .. i - 1 :
                    FrameSamples(k) = FrameSamples(k2) =>
                        stft_matrix.data[k + 1] = stft_matrix.data[k2 + 1]
        /\ \A k \in i .. num_windows - 1 :
              \A b \in 1 .. Len(stft_matrix.data[k + 1]) :
                  stft_matrix.data[k + 1][b] = ComplexZero
        /\ pc = "done" /\ ret.kind = "ok" =>
              LET rows == FrameRows(num_windows)
                  zeros == Zeros(num_windows, args.window_size \div 2 + 1)
              IN  \A o \in FrameOrders[num_windows] :
                      WriteAll(zeros, rows, o) = ret.val[3]

\* a call with three overlapping frames of different samples has returned
\* three different rows
C11_Witness ==
    /\ FramesStarted
    /\ pc = "done"
    /\ ret.kind = "ok"
    /\ args.window_size = 2
    /\ args.hop_length = 1
    /\ args.signal = <<0, 1, 1, 0>>
    /\ num_windows = 3
    /\ ret.val[3].data[1] /= ret.val[3].data[2]
    /\ ret.val[3].data[2] /= ret.val[3].data[3]

\* the call has valid sizes and a signal of at least one window, and has
\* computed its frame count
FramesCounted ==
    /\ op = "compute_stft"
    /\ pc \in {"alloc", "axes", "loop", "done"}
    /\ ValidSizes
    /\ Len(args.signal) >= args.window_size

\* the sample indices of frame k
FrameIndices(k) ==
    FrameSpan(args.window_size, args.hop_length, k)[1]
        .. FrameSpan(args.window_size, args.hop_length, k)[2] - 1

\* the sample indices that belong to at least one frame
Covered == UNION {FrameIndices(k) : k \in 0 .. num_windows - 1}

\* C12: with 0 < hop_length <= window_size <= len(signal) the frames cover
\* the prefix [0, (num_windows - 1) * hop_length + window_size) of the signal
\* without a gap, and the samples after it, which belong to no frame, number
\* (len(signal) - window_size) mod hop_length, fewer than hop_length.
C12_GapFreePrefix ==
    FramesCounted =>
        LET prefix == 0 .. (num_windows - 1) * args.hop_length + args.window_size - 1
            samples == 0 .. Len(args.signal) - 1
        IN  /\ Covered = prefix
            /\ prefix \subseteq samples
            /\ Cardinality(samples \ Covered)
                  = (Len(args.signal) - args.window_size) % args.hop_length
            /\ Cardinality(samples \ Covered) < args.hop_length

\* a call with two frames that leave one sample over has returned
C12_Witness ==
    /\ FramesCounted
    /\ pc = "done"
    /\ ret.kind = "ok"
    /\ num_windows = 2
    /\ args.hop_length = 2
    /\ args.window_size = 2
    /\ Len(args.signal) = 5
    /\ Covered = 0 .. 3

=============================================================================
